---- MODULE Spec2Model ----
(***************************************************************************)
(* dayz-server-manager: the scheduled-event engine (class Events), the     *)
(* schedule registry (class Manager) and the backup manager (class         *)
(* Backups), as state machines.                                            *)
(*                                                                         *)
(* Spec         the scheduler and the registry: start, stop, timer         *)
(*              firings, dispatch, schedule add/update/delete.             *)
(* SpecBackups  the backup manager: createBackup, restoreBackup, cleanup   *)
(*              as interleaved asynchronous calls over a file system.      *)
(***************************************************************************)
EXTENDS Integers, Sequences, FiniteSets, TLC

VARIABLES
    events,       \* Manager.config.events: the ordered event list
    disk,         \* the event list last written to server-manager.json
    nextOid,      \* next object identity for an event object
    jobs,         \* every job created through cron.scheduleJob, in order
    tasks,        \* Events.tasks: indexes into jobs
    skipEvents,   \* Events.skipEvents (--skip-events)
    serverState,  \* Monitor.serverState
    calls,        \* asynchronous calls in flight (pending promises)
    uncaught,     \* an exception or rejection reached the event loop unhandled
    live,         \* contents of <server>/mpmissions, or Absent
    rootExists,   \* the backup root directory exists
    root,         \* entries of the backup root, by name
    cwdDirs,      \* entries directly under the working directory, by name
    now,          \* the clock, in minutes
    sh,           \* a run of a backup cleanup script over one entry of BACKUP_DIR
    last          \* the handler or step that ran last, and what it did

vars == <<events, disk, nextOid, jobs, tasks, skipEvents, serverState,
          calls, uncaught, live, rootExists, root, cwdDirs, now, sh, last>>

schedVars == <<events, disk, nextOid, jobs, tasks, skipEvents, serverState>>
fsVars == <<live, rootExists, root, cwdDirs, now, sh>>

---------------------------------------------------------------------------
(* Bounds of the model *)

MaxEvents == 2
MaxJobs == 2
MaxCalls == 1
MaxTime == 1
MaxOid == 3
MaxTokens == 2
MaxCreated == 0
\* Calls that firings may add to the MaxCalls calls in flight, where the
\* overlap of executions is the subject.
MaxOverlap == 1

---------------------------------------------------------------------------
(* Values *)

NoCron == "undefined"
ParamsMissing == "<no params>"
NoDesc == "<undefined>"
Absent == "absent"
Partial == "partial"

\* A name or an id is <<base, stamp>>: base alone when stamp = -1, else
\* base_stamp.
NoId == <<"", -1>>

NameAt(i) ==
    CASE i = 1 -> <<"A", -1>>
      [] i = 2 -> <<"B C", -1>>
      [] i = 3 -> <<"B_C", -1>>
      [] OTHER -> <<"D", -1>>

\* name.replace(/[^a-zA-Z0-9-_]/g, '_')
NormBase(b) == IF b = "B C" THEN "B_C" ELSE IF b = "Backup Schedule" THEN "Backup_Schedule" ELSE b

Normalize(n) == <<NormBase(n[1]), n[2]>>

ServerStates == {"STOPPED", "STARTED"}

\* cron-parser: parseExpression(c) does not throw
CronParses(c) == c \in {"c1", "c2", "never"}

\* cron-parser: interval.next() yields a date
CronHasNext(c) == c \in {"c1", "c2"}

\* node-schedule: scheduleJob returns a job (not null) for this expression
ScheduleJobOk(c) == CronParses(c) /\ CronHasNext(c)

\* Backup events with every kind of cron expression: absent, rejected by
\* the parser, without a next invocation, valid.
BackupTemplates ==
    {[type |-> "backup", cron |-> c, p0 |-> ParamsMissing] :
        c \in {NoCron, "bad", "never", "c1"}}

\* Configured events of every task type, "custom" for an unrecognized one.
Templates ==
    BackupTemplates
    \cup {[type |-> t, cron |-> "c1", p0 |-> ParamsMissing] :
        t \in {"restart", "kickAll", "lock", "unlock", "custom"}}
    \cup {[type |-> "message", cron |-> "c1", p0 |-> p] :
        p \in {ParamsMissing, "", "hi"}}

MkEvent(i, t) ==
    [oid |-> i, name |-> NameAt(i), id |-> NoId, type |-> t.type,
     cron |-> t.cron, p0 |-> t.p0]

EventLists(templates) ==
    UNION {{[i \in 1..n |-> MkEvent(i, f[i])] : f \in [1..n -> templates]} :
           n \in 0..MaxEvents}

Last(op) ==
    [op |-> op, job |-> 0, oid |-> 0, type |-> "", srv |-> "", acts |-> {},
     caught |-> FALSE, executed |-> FALSE, res |-> "", base |-> 0,
     call |-> <<>>, trace |-> <<>>, logs |-> {}, id |-> NoId, on |-> FALSE,
     ret |-> <<>>, was |-> <<>>]

NoName == <<"none", -1>>

\* A call in flight. arg, marker, snap and t0 belong to the backup calls;
\* The other fields record the history of the call: made, the artifacts it
\* wrote; fresh, its artifact was a new one; hadLive, the source existed at
\* the call; checked, what the check of the source found; from, the
\* contents of the backup at the call; isArt, the backup was an artifact;
\* safety, how the safety backup ended; touched, the live directory was
\* written; failed, the step that failed; threw, a step threw or rejected;
\* after, a cleanup that began right after another cleanup had completed,
\* with the clock where that one had read it; listed, the names that
\* readdir returned; result, the descriptors that getBackups returned;
\* pre, the contents of the source when the copy of createBackup read it;
\* saved, the contents of the artifact when that copy had ended; namedAt,
\* the minute in which createBackup read the clock for the name.
NewCall(kind, job) ==
    [kind |-> kind, job |-> job, handled |-> FALSE, pc |-> "pending",
     arg |-> NoName, marker |-> NoName, snap |-> Absent, t0 |-> 0,
     made |-> {}, fresh |-> FALSE, hadLive |-> FALSE, from |-> Absent,
     expired |-> {}, failed |-> "", isArt |-> FALSE, checked |-> "unchecked",
     safety |-> "", touched |-> FALSE, threw |-> FALSE, after |-> FALSE,
     listed |-> {}, result |-> {}, saved |-> Absent, pre |-> Absent,
     namedAt |-> -1]

\* No cleanup script has run.
NoRun == [ran |-> "none"]

RemoveAt(s, i) == SubSeq(s, 1, i - 1) \o SubSeq(s, i + 1, Len(s))

---------------------------------------------------------------------------
(* Events.start *)

NewJob(e) ==
    [oid |-> e.oid, name |-> e.name, type |-> e.type, p0 |-> e.p0,
     st |-> "active"]

Register(st, e) ==
    [jobs |-> Append(st.jobs, NewJob(e)),
     tasks |-> Append(st.tasks, Len(st.jobs) + 1)]

\* One iteration of the loop of start(), with the cron-parser validation.
StartEventValidated(st, e) ==
    IF e.cron = NoCron \/ e.cron = "" THEN st
    ELSE IF ~CronParses(e.cron) THEN st
    ELSE IF ~CronHasNext(e.cron) THEN st
    ELSE IF ~ScheduleJobOk(e.cron) THEN st
    ELSE Register(st, e)

\* One iteration of the loop of start() without validation: scheduleJob
\* returns null for a bad expression, job.nextInvocation() then throws and
\* the catch of the iteration logs it.
StartEventLegacy(st, e) ==
    IF e.cron = NoCron \/ e.cron = "" THEN st
    ELSE IF ~ScheduleJobOk(e.cron) THEN st
    ELSE Register(st, e)

StartEvent(st, e) == StartEventValidated(st, e)

RECURSIVE StartAllLegacy(_, _)
StartAllLegacy(st, evs) ==
    IF evs = <<>> THEN st
    ELSE StartAllLegacy(StartEventLegacy(st, Head(evs)), Tail(evs))

RECURSIVE StartAllAbort(_, _)
\* A start() whose loop ends at the first rejected event.
StartAllAbort(st, evs) ==
    IF evs = <<>> THEN st
    ELSE IF StartEvent(st, Head(evs)) = st THEN st
    ELSE StartAllAbort(StartEvent(st, Head(evs)), Tail(evs))

RECURSIVE StartAll(_, _)
StartAll(st, evs) ==
    IF evs = <<>> THEN st
    ELSE StartAll(StartEvent(st, Head(evs)), Tail(evs))

Start ==
    /\ Len(StartAll([jobs |-> jobs, tasks |-> tasks], events).jobs) <= MaxJobs
    /\ LET st == StartAll([jobs |-> jobs, tasks |-> tasks], events) IN
         /\ jobs' = st.jobs
         /\ tasks' = st.tasks
    /\ last' = [Last("start") EXCEPT !.base = Len(jobs)]
    /\ UNCHANGED <<events, disk, nextOid, skipEvents, serverState,
                   calls, uncaught>>
    /\ UNCHANGED fsVars

\* job.nextInvocation().toISOString() for a job that scheduleJob has
\* returned: it yields the date, or it throws.
NextInvocationOutcomes == {"date", "throws"}

\* One iteration of the loop of start() in which the reading of the next
\* invocation throws for the events of bad: the timer is registered with
\* node-schedule, the catch of the iteration logs, and this.tasks.push(job)
\* is not reached.
StartEventReadFails(st, e, bad) ==
    IF e.oid \in bad /\ StartEvent(st, e) # st
    THEN [jobs |-> Append(st.jobs, [NewJob(e) EXCEPT !.st = "orphan"]),
          tasks |-> st.tasks]
    ELSE StartEvent(st, e)

RECURSIVE StartAllReadFails(_, _, _)
StartAllReadFails(st, evs, bad) ==
    IF evs = <<>> THEN st
    ELSE StartAllReadFails(StartEventReadFails(st, Head(evs), bad),
                           Tail(evs), bad)

\* start() with the outcome of each reading of the next invocation: it
\* throws for the events that out maps to "throws".
StartReadFails ==
    \E out \in [{events[i].oid : i \in DOMAIN events} -> NextInvocationOutcomes] :
        LET bad == {o \in DOMAIN out : out[o] = "throws"}
            st == StartAllReadFails([jobs |-> jobs, tasks |-> tasks], events, bad)
        IN /\ bad # {}
           /\ Len(st.jobs) <= MaxJobs
           /\ jobs' = st.jobs
           /\ tasks' = st.tasks
           /\ last' = [Last("start") EXCEPT !.base = Len(jobs)]
           /\ UNCHANGED <<events, disk, nextOid, skipEvents, serverState,
                          calls, uncaught>>
           /\ UNCHANGED fsVars

---------------------------------------------------------------------------
(* Events.stop *)

InTasks(ts, j) == \E i \in DOMAIN ts : ts[i] = j

\* A stop() that clears the set without cancelling.
StopTasksNoCancel(js, ts, k, survive) == js

\* The loop of stop(): task.cancel() for each task. The k-th cancel throws
\* (k = 0: none does); the timer whose cancel threw is either cancelled all
\* the same or, when survive holds, still live: "orphan", a live timer that
\* is in no set.
StopTasks(js, ts, k, survive) ==
    [j \in DOMAIN js |->
        IF InTasks(ts, j)
        THEN [js[j] EXCEPT !.st = IF k \in DOMAIN ts /\ ts[k] = j /\ survive
                                  THEN "orphan" ELSE "cancelled"]
        ELSE js[j]]

\* A stop() that aborts the tasks that the timers started.
InFlightAborted(cs) == SelectSeq(cs, LAMBDA c : c.job = 0 /\ c.kind # "kill")

\* stop() cancels timers and nothing else: the promises of the tasks that
\* earlier firings started are not touched.
InFlightAfterStop(cs) == cs

Stop ==
    \E k \in 0..Len(tasks), survive \in BOOLEAN :
        /\ (survive => k > 0)
        /\ jobs' = StopTasks(jobs, tasks, k, survive)
        /\ tasks' = <<>>
        /\ calls' = InFlightAfterStop(calls)
        /\ last' = Last("stop")
        /\ UNCHANGED <<events, disk, nextOid, skipEvents, serverState,
                       uncaught>>
        /\ UNCHANGED fsVars

---------------------------------------------------------------------------
(* Backups: the file system *)

\* mpmissions_<Y>-<M>-<D>-<H>-<Min> of the minute t
Marker(t) == <<"mpmissions", t>>

\* A directory of the backup root that is no artifact.
KeepName == <<"keep", 0>>

\* The empty string: path.join(backupDir, '') is the backup root itself.
EmptyName == <<"", 0>>

RootNames == {Marker(t) : t \in 0..MaxTime} \cup {KeepName}

NoEntry == [kind |-> "absent", content |-> Absent, mtime |-> 0]

Dir(content, mtime) == [kind |-> "dir", content |-> content, mtime |-> mtime]

\* file.startsWith('mpmissions_') && stats.isDirectory()
IsArtifact(r, n) == n[1] = "mpmissions" /\ r[n].kind = "dir"

Artifacts(r) == {n \in DOMAIN r : IsArtifact(r, n)}

\* fs.existsSync(path.join(backupDir, backupName))
BackupExists(n) ==
    IF n = EmptyName THEN rootExists
    ELSE rootExists /\ n \in DOMAIN root /\ root[n].kind # "absent"

\* What copyDirFromTo reads at path.join(backupDir, backupName).
BackupContent(n) ==
    IF n = EmptyName THEN (IF rootExists THEN "backup root" ELSE Absent)
    ELSE IF n \in DOMAIN root THEN root[n].content ELSE Absent

\* A createBackup that does not look for the source directory.
SourceMissingNever(l) == FALSE

\* !this.fs.existsSync(mpmissions)
SourceMissing(l) == l = Absent

\* fs.promises.mkdir(backups, { recursive: true }) resolves or rejects.
MkdirOutcomes == {"ok", "throws"}

\* Paths.copyDirFromTo resolves true, resolves false or rejects.
CopyOutcomes == {"ok", "false", "throws"}

\* Paths.removeLink resolves true, resolves false or rejects.
RemoveOutcomes == {"ok", "false", "throws"}

\* config.backupMaxAge, in minutes of the clock
BackupMaxAge == 0

---------------------------------------------------------------------------
(* Backups.createBackup, as the steps between its awaits. The call is a    *)
(* scheduled backup task ("backup"), a direct call ("create") or the       *)
(* safety backup of a restoreBackup ("restore").                           *)

\* The call of createBackup up to its first await: mkdir is under way.
BeginCreate(kind, job) ==
    [NewCall(kind, job) EXCEPT !.pc = "mkdir", !.t0 = now,
                               !.hadLive = (live # Absent),
                               !.handled = TRUE]

\* void this.cleanup(): cleanup up to its first await, inside getBackups.
\* Nothing handles the promise of a cleanup that createBackup started.
BeginCleanup ==
    [NewCall("cleanup", 0) EXCEPT
        !.pc = "readdir", !.t0 = now,
        !.after = /\ last.op = "cleanup"
                  /\ last.res = "done"
                  /\ last.call[1].failed = ""
                  /\ last.call[1].t0 = now]

\* A restoreBackup without its catch: the exception reaches the caller.
RestoreThrewEscapes == "raised"

\* catch (error) { log; return false } of restoreBackup
RestoreThrew == "false"

Done(op, res, c) == [Last(op) EXCEPT !.res = res, !.call = <<c>>]

\* A restoreBackup that goes on after its safety backup has thrown.
SafetyFailedIgnored(res) == FALSE

\* await this.createBackup() inside the try of restoreBackup: an exception
\* of createBackup goes to the catch of restoreBackup.
SafetyFailed(res) == res = "raised"

\* createBackup of call i returned (res: "skipped", "created", "copy false")
\* or threw (res: "raised"); cl: it started a cleanup. The scheduled task
\* and the direct call end here, restoreBackup goes on or returns false.
EndCreate(i, c, res, cl, lv) ==
    LET rest == IF cl THEN <<BeginCleanup>> ELSE <<>> IN
    IF c.kind = "restore"
    THEN IF SafetyFailed(res)
         THEN /\ calls' = RemoveAt(calls, i) \o rest
              /\ last' = Done("restore", RestoreThrew,
                              [c EXCEPT !.safety = res, !.threw = TRUE])
         ELSE /\ calls' = [calls EXCEPT ![i] =
                              [c EXCEPT !.pc = IF lv # Absent THEN "rm" ELSE "rcopy",
                                        !.safety = res]]
                          \o rest
              /\ last' = Done("safety", res, c)
    ELSE /\ calls' = RemoveAt(calls, i) \o rest
         /\ last' = Done("createBackup", res, c)

Checked(l) == IF l = Absent THEN "missing" ELSE "present"

\* A createBackup whose steps wait while a restoreBackup is in flight.
ExcludedByRestore(i) ==
    \E k \in DOMAIN calls : k # i /\ calls[k].kind = "restore"

\* Neither createBackup nor restoreBackup takes a lock: no step of a call
\* waits for another call.
Excluded(i) == FALSE

\* A createBackup that names the artifact after the minute of its call.
NamingTimeAtCall(c, t) == c.t0

\* const now = new Date(): the clock is read after mkdir has settled and
\* the source was found, at time t, not when createBackup was called.
NamingTime(c, t) == t

\* mkdir settles; then, in the same turn, the check of the source
\* directory, the name of the artifact and the start of the copy.
CbMkdir(i) ==
    /\ calls[i].pc = "mkdir"
    /\ ~Excluded(i)
    /\ \E o \in MkdirOutcomes :
         IF o = "throws"
         THEN /\ EndCreate(i, [calls[i] EXCEPT !.failed = "mkdir"], "raised",
                           FALSE, live)
              /\ UNCHANGED rootExists
         ELSE /\ rootExists' = TRUE
              /\ IF SourceMissing(live)
                 THEN EndCreate(i, [calls[i] EXCEPT !.checked = Checked(live)],
                                "skipped", FALSE, live)
                 ELSE /\ calls' = [calls EXCEPT ![i].pc = "copy",
                                                ![i].marker =
                                                    Marker(NamingTime(calls[i], now)),
                                                ![i].namedAt = now,
                                                ![i].checked = Checked(live)]
                      /\ last' = Last("mkdir")
    /\ UNCHANGED schedVars
    /\ UNCHANGED <<uncaught, live, root, cwdDirs, now, sh>>

\* copyDirFromTo(mpmissions, curBackup) reads the source and starts to
\* write the artifact directory; a failure leaves no directory written.
CbCopyRead(i) ==
    /\ calls[i].pc = "copy"
    /\ ~Excluded(i)
    /\ LET c == calls[i] IN
       IF live = Absent
       THEN /\ \E o \in CopyOutcomes \ {"ok"} :
                 EndCreate(i, [c EXCEPT !.failed = "copy"],
                           IF o = "throws" THEN "raised" ELSE "copy false",
                           o = "false", live)
            /\ UNCHANGED root
       ELSE /\ root' = [root EXCEPT ![c.marker] = Dir(Partial, now)]
            /\ calls' = [calls EXCEPT ![i].pc = "copying", ![i].snap = live,
                                      ![i].pre = live,
                                      ![i].made = @ \cup {c.marker},
                                      ![i].fresh = (root[c.marker].kind = "absent")]
            /\ last' = Last("copy")
    /\ UNCHANGED schedVars
    /\ UNCHANGED <<uncaught, live, rootExists, cwdDirs, now, sh>>

\* A copy that resolves while the artifact is still being written.
CopiedEarly(c) == Partial

\* What a copy that resolved true has left in the artifact: the contents
\* that it read.
Copied(c) == c.snap

\* copyDirFromTo ends: the artifact is complete, or the copy failed and the
\* artifact stays partial. After a copy that did not throw: void cleanup().
CbCopyDone(i) ==
    /\ calls[i].pc = "copying"
    /\ ~Excluded(i)
    /\ LET c == calls[i] IN
       \E o \in CopyOutcomes :
         /\ root' = IF o = "ok"
                    THEN [root EXCEPT ![c.marker] = Dir(Copied(c), now)]
                    ELSE root
         /\ EndCreate(i, IF o = "ok" THEN [c EXCEPT !.saved = Copied(c)]
                         ELSE [c EXCEPT !.failed = "copy"],
                      CASE o = "ok" -> "created"
                        [] o = "false" -> "copy false"
                        [] OTHER -> "raised",
                      o # "throws", live)
    /\ UNCHANGED schedVars
    /\ UNCHANGED <<uncaught, live, rootExists, cwdDirs, now, sh>>

\* The direct call of createBackup.
CreateBackup ==
    /\ Len(calls) < MaxCalls
    /\ calls' = Append(calls, BeginCreate("create", 0))
    /\ last' = Last("call createBackup")
    /\ UNCHANGED schedVars
    /\ UNCHANGED <<uncaught>>
    /\ UNCHANGED fsVars

---------------------------------------------------------------------------
(* Backups.cleanup and Backups.getBackups *)

\* getBackups: the entries of the backup root that are artifacts.
GetBackups(r) == Artifacts(r)

\* age > maxAge
Expired(r, t) == {n \in GetBackups(r) : t - r[n].mtime > BackupMaxAge}

\* fs.promises.readdir and fs.promises.stat of getBackups resolve or reject.
ListOutcomes == {"ok", "throws"}

\* A cleanup without its catch.
CleanupCatchesNothing == FALSE

\* catch (error) { log } of cleanup
CleanupCatches == TRUE

\* cleanup of call i ended in its catch.
CleanupFailed(i, step) ==
    /\ calls' = RemoveAt(calls, i)
    /\ uncaught' = (uncaught \/ (~CleanupCatches /\ ~calls[i].handled))
    /\ last' = Done("cleanup", "failed", [calls[i] EXCEPT !.failed = step,
                                                        !.threw = TRUE])

\* getBackups of cleanup settles: readdir and stat; getBackups re-throws a
\* failure, cleanup catches it and ends.
ClList(i) ==
    /\ calls[i].pc = "readdir"
    /\ \E o \in ListOutcomes :
         IF ~rootExists \/ o = "throws"
         THEN CleanupFailed(i, "readdir")
         ELSE /\ calls' = [calls EXCEPT ![i].pc = "remove",
                                        ![i].expired = Expired(root, calls[i].t0)]
              /\ last' = Last("readdir")
              /\ UNCHANGED uncaught
    /\ UNCHANGED schedVars
    /\ UNCHANGED fsVars

\* The loop of cleanup: removeLink(backup.file) with the bare file name,
\* which is a path relative to the working directory.
ClRemove(i) ==
    /\ calls[i].pc = "remove"
    /\ \E o \in RemoveOutcomes :
         IF o = "throws" /\ calls[i].expired # {}
         THEN /\ CleanupFailed(i, "remove")
              /\ UNCHANGED cwdDirs
         ELSE /\ cwdDirs' = IF o = "ok" THEN cwdDirs \ calls[i].expired
                                        ELSE cwdDirs
              /\ calls' = RemoveAt(calls, i)
              /\ last' = Done("cleanup", "done",
                              IF o = "ok" THEN calls[i]
                              ELSE [calls[i] EXCEPT !.failed = "remove"])
              /\ UNCHANGED uncaught
    /\ UNCHANGED schedVars
    /\ UNCHANGED <<live, rootExists, root, now, sh>>

\* The direct call of cleanup, awaited by its caller.
Cleanup ==
    /\ Len(calls) < MaxCalls
    /\ calls' = Append(calls, [BeginCleanup EXCEPT !.handled = TRUE])
    /\ last' = Last("call cleanup")
    /\ UNCHANGED schedVars
    /\ UNCHANGED <<uncaught>>
    /\ UNCHANGED fsVars

---------------------------------------------------------------------------
(* Backups.getBackups, called directly *)

\* A filter that takes every directory for a backup.
KeepsEveryDir(r, n) == r[n].kind = "dir"

\* if (file.startsWith('mpmissions_') && stats.isDirectory())
Keeps(r, n) == IsArtifact(r, n)

\* The call of getBackups up to its first await: readdir is under way.
GetBackupsCall ==
    /\ Len(calls) < MaxCalls
    /\ calls' = Append(calls, [NewCall("list", 0) EXCEPT !.pc = "ls",
                                                         !.handled = TRUE])
    /\ last' = Last("call getBackups")
    /\ UNCHANGED schedVars
    /\ UNCHANGED <<uncaught>>
    /\ UNCHANGED fsVars

\* readdir settles: the names of the entries of the backup root.
LsReaddir(i) ==
    /\ calls[i].pc = "ls"
    /\ \E o \in ListOutcomes :
         IF ~rootExists \/ o = "throws"
         THEN /\ calls' = RemoveAt(calls, i)
              /\ last' = Done("list", "raised", [calls[i] EXCEPT !.threw = TRUE])
         ELSE /\ calls' = [calls EXCEPT
                              ![i].pc = "stat",
                              ![i].listed = {n \in DOMAIN root :
                                                root[n].kind # "absent"}]
              /\ last' = Last("readdir")
    /\ UNCHANGED schedVars
    /\ UNCHANGED <<uncaught>>
    /\ UNCHANGED fsVars

\* The stats of the loop settle; getBackups returns { file, mtime } for each
\* entry that it keeps, or re-throws the failure of a stat.
LsStat(i) ==
    /\ calls[i].pc = "stat"
    /\ \E o \in ListOutcomes :
         /\ calls' = RemoveAt(calls, i)
         /\ last' =
              IF o = "throws" /\ calls[i].listed # {}
              THEN Done("list", "raised", [calls[i] EXCEPT !.threw = TRUE])
              ELSE Done("list", "listed",
                        [calls[i] EXCEPT !.result =
                            {<<n, root[n].mtime>> :
                                n \in {m \in calls[i].listed : Keeps(root, m)}}])
    /\ UNCHANGED schedVars
    /\ UNCHANGED <<uncaught>>
    /\ UNCHANGED fsVars

ListStep == \E i \in DOMAIN calls : LsReaddir(i) \/ LsStat(i)

---------------------------------------------------------------------------
(* Backups.restoreBackup *)

\* A restoreBackup that goes to the copy without a safety backup.
SafetyBackupSkipped == [BeginCreate("restore", 0) EXCEPT !.pc = "rcopy"]

\* await this.createBackup() of restoreBackup
SafetyBackup == BeginCreate("restore", 0)

\* restoreBackup(n) up to its first await: false at once when nothing
\* exists at the path, else the safety backup is under way.
RestoreBackup(n) ==
    /\ IF ~BackupExists(n)
       THEN /\ UNCHANGED calls
            /\ last' = Done("restore", "false",
                            [SafetyBackup EXCEPT !.arg = n,
                                                              !.failed = "missing"])
       ELSE /\ Len(calls) < MaxCalls
            /\ calls' = Append(calls,
                   [SafetyBackup EXCEPT !.arg = n,
                                                     !.from = BackupContent(n),
                                                     !.isArt = (n \in Artifacts(root))])
            /\ last' = Last("call restoreBackup")
    /\ UNCHANGED schedVars
    /\ UNCHANGED <<uncaught>>
    /\ UNCHANGED fsVars

\* removeLink(mpmissionsPath) settles; then the copy of the backup starts.
RsRemove(i) ==
    /\ calls[i].pc = "rm"
    /\ \E o \in RemoveOutcomes :
         /\ live' = IF o = "ok" THEN Absent ELSE live
         /\ IF o = "throws"
            THEN /\ calls' = RemoveAt(calls, i)
                 /\ last' = Done("restore", RestoreThrew,
                                 [calls[i] EXCEPT !.failed = "remove",
                                                  !.threw = TRUE])
            ELSE /\ calls' = [calls EXCEPT ![i].pc = "rcopy",
                                           ![i].touched = @ \/ (o = "ok")]
                 /\ last' = Last("remove")
    /\ UNCHANGED schedVars
    /\ UNCHANGED <<uncaught, rootExists, root, cwdDirs, now, sh>>

\* copyDirFromTo(backupPath, mpmissionsPath) reads the backup and starts to
\* write the live directory.
RsCopyRead(i) ==
    /\ calls[i].pc = "rcopy"
    /\ LET c == calls[i] IN
       IF BackupContent(c.arg) = Absent
       THEN /\ \E o \in CopyOutcomes \ {"ok"} :
                 /\ calls' = RemoveAt(calls, i)
                 /\ last' = Done("restore",
                                 IF o = "throws" THEN RestoreThrew ELSE "true",
                                 [c EXCEPT !.failed = "copy",
                                           !.threw = (o = "throws")])
            /\ UNCHANGED live
       ELSE /\ live' = Partial
            /\ calls' = [calls EXCEPT ![i].pc = "rcopying",
                                      ![i].snap = BackupContent(c.arg),
                                      ![i].touched = TRUE]
            /\ last' = Last("copy")
    /\ UNCHANGED schedVars
    /\ UNCHANGED <<uncaught, rootExists, root, cwdDirs, now, sh>>

\* copyDirFromTo ends; restoreBackup returns true unless the copy threw.
RsCopyDone(i) ==
    /\ calls[i].pc = "rcopying"
    /\ LET c == calls[i] IN
       \E o \in CopyOutcomes :
         /\ live' = IF o = "ok" THEN c.snap ELSE live
         /\ calls' = RemoveAt(calls, i)
         /\ last' = Done("restore",
                         IF o = "throws" THEN RestoreThrew ELSE "true",
                         IF o = "ok" THEN c
                         ELSE [c EXCEPT !.failed = "copy",
                                        !.threw = (o = "throws")])
    /\ UNCHANGED schedVars
    /\ UNCHANGED <<uncaught, rootExists, root, cwdDirs, now, sh>>

\* The game server and its administrators write the mission data.
EditLive(v) ==
    /\ live \notin {v, Partial}
    /\ live' = v
    /\ last' = Last("edit")
    /\ UNCHANGED schedVars
    /\ UNCHANGED <<calls, uncaught, rootExists, root, cwdDirs, now, sh>>

\* The steps of the backup calls in flight.
BackupStep ==
    \E i \in DOMAIN calls :
        \/ CbMkdir(i)
        \/ CbCopyRead(i)
        \/ CbCopyDone(i)
        \/ ClList(i)
        \/ ClRemove(i)

RestoreStep ==
    \E i \in DOMAIN calls :
        \/ RsRemove(i)
        \/ RsCopyRead(i)
        \/ RsCopyDone(i)

---------------------------------------------------------------------------
(* The timer callback, Events.execute, checkStartedAndRun, runTask *)

\* A runTask that attaches no catch handler to the promise of the task.
RunTaskNoCatch(r, t) ==
    IF t.throws THEN [r EXCEPT !.threw = TRUE]
    ELSE [r EXCEPT !.acts = @ \cup t.acts,
                   !.trace = @ \o t.steps,
                   !.spawn = Append(@, [t.call EXCEPT !.handled = FALSE])]

\* runTask: void task()?.then(...)?.catch(...). A task that throws before
\* it returns a promise throws out of runTask; then and catch are attached
\* only when task() returns a promise.
RunTask(r, t) ==
    IF t.throws THEN [r EXCEPT !.threw = TRUE]
    ELSE [r EXCEPT !.acts = @ \cup t.acts,
                   !.trace = @ \o t.steps,
                   !.spawn = Append(@, [t.call EXCEPT !.handled = t.promise])]

\* A guard that runs the task in every server state.
CheckStartedAndRunAlways(r, t) == RunTask(r, t)

CheckStartedAndRun(r, t) ==
    IF serverState # "STARTED" THEN r ELSE RunTask(r, t)

\* A restart task that asks for the kill before it announces it.
RestartStepsKillFirst == <<"killServer", "notify">>

\* The body of the restart task up to its await: eventBus.emit(...), then
\* the call of monitor.killServer().
RestartSteps == <<"notify", "killServer">>

\* The calls that a task makes before it returns its promise, in order.
StepsOf(acts) ==
    IF acts = {} THEN <<>>
    ELSE IF acts = {RestartSteps[k] : k \in DOMAIN RestartSteps} THEN RestartSteps
    ELSE <<CHOOSE a \in acts : TRUE>>

Task(acts, call, throws, promise) ==
    [acts |-> acts, call |-> call, throws |-> throws, promise |-> promise,
     steps |-> StepsOf(acts)]

\* The Promise of Monitor.killServer() may reject.
KillOutcomes == {"resolved", "rejected"}

\* The RCON client logs its own errors: its promises do not reject.
RconOutcomes == {"resolved"}

Execute(j) ==
    LET job == jobs[j]
        r0 == [acts |-> {}, spawn |-> <<>>, threw |-> FALSE, logs |-> {},
               trace |-> <<>>]
    IN
    CASE job.type = "restart" ->
           CheckStartedAndRun(r0,
               Task({"notify", "killServer"}, NewCall("kill", 0), FALSE, TRUE))
      [] job.type = "message" ->
           CheckStartedAndRun(
               [r0 EXCEPT !.logs = IF job.p0 \in {ParamsMissing, ""}
                                   THEN {"missing message"} ELSE {}],
               Task({"global"}, NewCall("rcon", 0),
                    job.p0 = ParamsMissing, TRUE))
      [] job.type \in {"kickAll", "lock", "unlock"} ->
           CheckStartedAndRun(r0,
               Task({job.type}, NewCall("rcon", 0), FALSE, FALSE))
      [] job.type = "backup" ->
           RunTask(r0,
               Task({"createBackup"},
                    BeginCreate("backup", j),
                    FALSE, TRUE))
      [] OTHER -> r0

\* A callback that ignores the skip-events flag.
SkipFiringNever == FALSE

SkipFiring == skipEvents

\* try { this.execute(event) } catch (e) { log }
CallbackCatches == TRUE

\* A dispatcher that holds a firing back while a task that an earlier
\* firing of the same timer started is still running.
AwaitsEarlierRun(j) == \E k \in DOMAIN calls : calls[k].job = j

\* runTask: void task()... The callback returns while the task runs, and
\* nothing records that it runs: a firing does not wait for an earlier one.
AwaitsEarlier(j) == FALSE

\* The callback of the timer of job j fires; at most cap calls are in
\* flight afterwards.
FireWithin(j, cap) ==
    /\ jobs[j].st \in {"active", "orphan"}
    /\ ~AwaitsEarlier(j)
    /\ IF SkipFiring
       THEN /\ UNCHANGED <<calls, uncaught>>
            /\ last' = [Last("fire") EXCEPT !.job = j, !.oid = jobs[j].oid,
                                            !.type = jobs[j].type,
                                            !.srv = serverState]
       ELSE LET r == Execute(j) IN
            /\ Len(calls) + Len(r.spawn) <= cap
            /\ calls' = calls \o r.spawn
            /\ uncaught' = (uncaught \/ (r.threw /\ ~CallbackCatches))
            /\ last' = [Last("fire") EXCEPT !.job = j, !.oid = jobs[j].oid,
                                            !.type = jobs[j].type,
                                            !.srv = serverState,
                                            !.executed = TRUE,
                                            !.acts = r.acts,
                                            !.caught = r.threw,
                                            !.trace = r.trace,
                                            !.logs = r.logs]
    /\ UNCHANGED schedVars
    /\ UNCHANGED fsVars

Fire(j) == FireWithin(j, MaxCalls)

\* The promise of killServer or of an RCON command settles.
Settle(i) ==
    /\ calls[i].kind \in {"kill", "rcon"}
    /\ \E o \in (IF calls[i].kind = "kill" THEN KillOutcomes ELSE RconOutcomes) :
          /\ uncaught' = (uncaught \/ (o = "rejected" /\ ~calls[i].handled))
          /\ last' = [Last("settle") EXCEPT !.job = calls[i].job, !.res = o]
    /\ calls' = RemoveAt(calls, i)
    /\ UNCHANGED schedVars
    /\ UNCHANGED fsVars

SetServerState(s) ==
    /\ s # serverState
    /\ serverState' = s
    /\ last' = Last("serverState")
    /\ UNCHANGED <<events, disk, nextOid, jobs, tasks, skipEvents,
                   calls, uncaught>>
    /\ UNCHANGED fsVars

Tick ==
    /\ now < MaxTime
    /\ now' = now + 1
    /\ last' = Last("tick")
    /\ UNCHANGED schedVars
    /\ UNCHANGED <<calls, uncaught, live, rootExists, root, cwdDirs, sh>>

---------------------------------------------------------------------------
(* Manager: the schedule registry *)

\* id: event.id || event.name.replace(/[^a-zA-Z0-9-_]/g, '_')
ListedId(e) == IF e.id # NoId THEN e.id ELSE Normalize(e.name)

\* The ids a client can send: the listed ones and one that matches nothing.
ScheduleIds ==
    {ListedId(events[i]) : i \in {k \in DOMAIN events : events[k].type = "backup"}}
    \cup {<<"nope", -1>>}

\* A lookup that falls back to the first event of the list.
FindBackupOrFirst(evs, id) ==
    LET S == {i \in DOMAIN evs : /\ evs[i].type = "backup"
                                 /\ (evs[i].id = id \/ Normalize(evs[i].name) = id)}
    IN IF S # {} THEN CHOOSE i \in S : \A k \in S : i <= k
       ELSE IF evs = <<>> THEN 0 ELSE 1

\* events.find / findIndex of update and delete: the first backup event whose
\* id, or whose normalized name, is the id; 0 when there is none.
FindBackup(evs, id) ==
    LET S == {i \in DOMAIN evs : /\ evs[i].type = "backup"
                                 /\ (evs[i].id = id \/ Normalize(evs[i].name) = id)}
    IN IF S = {} THEN 0 ELSE CHOOSE i \in S : \A k \in S : i <= k

\* One entry of getBackupSchedules: id: event.id || normalized name,
\* enabled: !!event.cron, cronExpression: event.cron || '',
\* description: event.params?.[0] || event.name
ListEntry(e) ==
    [id |-> ListedId(e),
     enabled |-> e.cron \notin {NoCron, ""},
     cronExpression |-> IF e.cron = NoCron THEN "" ELSE e.cron,
     description |-> IF e.p0 \in {ParamsMissing, ""} THEN e.name
                     ELSE <<e.p0, -1>>]

\* getBackupSchedules: the entries of the backup events, in their order.
GetBackupSchedules(evs) ==
    LET bs == SelectSeq(evs, LAMBDA e : e.type = "backup")
    IN [k \in DOMAIN bs |-> ListEntry(bs[k])]

\* saveConfig: writeFileSync, a failure is caught and logged.
SaveConfig(evs, written) == IF written THEN evs ELSE disk

\* timestamp of addBackupSchedule
Stamp(t) == t

\* baseName.replace(/[^a-zA-Z0-9-_ ]/g, '_')
AddBase(desc) == IF desc = NoDesc \/ desc = "" THEN "Backup Schedule" ELSE desc

AddBackupSchedule(descs, writes) ==
    \E enabled \in BOOLEAN, desc \in descs, written \in writes :
        /\ Len(events) < MaxEvents
        /\ nextOid <= MaxOid
        /\ events' = Append(events,
               [oid |-> nextOid,
                name |-> <<AddBase(desc), Stamp(now)>>,
                id |-> <<"backup", Stamp(now)>>,
                type |-> "backup",
                cron |-> IF enabled THEN "c1" ELSE NoCron,
                p0 |-> IF desc = NoDesc \/ desc = "" THEN ParamsMissing ELSE desc])
        /\ nextOid' = nextOid + 1
        /\ disk' = SaveConfig(events', written)
        /\ last' = [Last("add") EXCEPT
                       !.oid = nextOid, !.res = "added",
                       !.id = <<"backup", Stamp(now)>>,
                       !.ret = <<[id |-> <<"backup", Stamp(now)>>,
                                  enabled |-> enabled,
                                  cronExpression |-> "c1",
                                  description |-> IF desc = NoDesc THEN NoName
                                                  ELSE <<desc, -1>>]>>]
        /\ UNCHANGED <<jobs, tasks, skipEvents, serverState, calls, uncaught>>
        /\ UNCHANGED fsVars

UpdateBackupSchedule(descs, writes) ==
    \E id \in ScheduleIds, enabled \in BOOLEAN, desc \in descs,
       written \in writes :
        LET i == FindBackup(events, id) IN
        /\ IF i = 0
           THEN /\ UNCHANGED <<events, disk>>
                /\ last' = [Last("update") EXCEPT !.res = "false", !.id = id]
           ELSE /\ events' = [events EXCEPT
                       ![i].cron = IF enabled THEN "c1" ELSE NoCron,
                       ![i].id = id,
                       ![i].p0 = IF desc # NoDesc THEN desc ELSE @]
                /\ disk' = SaveConfig(events', written)
                /\ last' = [Last("update") EXCEPT !.oid = events[i].oid,
                                                  !.res = "true", !.id = id]
        /\ UNCHANGED <<nextOid, jobs, tasks, skipEvents, serverState,
                       calls, uncaught>>
        /\ UNCHANGED fsVars

DeleteBackupSchedule(writes) ==
    \E id \in ScheduleIds, written \in writes :
        LET i == FindBackup(events, id) IN
        /\ IF i = 0
           THEN /\ UNCHANGED <<events, disk>>
                /\ last' = [Last("delete") EXCEPT !.res = "false", !.id = id]
           ELSE /\ events' = RemoveAt(events, i)
                /\ disk' = SaveConfig(events', written)
                /\ last' = [Last("delete") EXCEPT !.oid = events[i].oid,
                                                  !.res = "true", !.id = id]
        /\ UNCHANGED <<nextOid, jobs, tasks, skipEvents, serverState,
                       calls, uncaught>>
        /\ UNCHANGED fsVars

\* A find without the test of the type.
FirstEvent(evs) == IF evs = <<>> THEN 0 ELSE 1

\* config.events.find(e => e.type === 'backup'): the first backup event,
\* 0 when there is none.
FirstBackup(evs) ==
    LET S == {i \in DOMAIN evs : evs[i].type = "backup"}
    IN IF S = {} THEN 0 ELSE CHOOSE i \in S : \A k \in S : i <= k

\* getBackupSchedule: enabled and cron of the first backup event, the
\* default '0 0 * * *' (c1) when there is none or when it has no cron.
GetBackupSchedule(evs) ==
    LET i == FirstBackup(evs) IN
    IF i = 0 THEN [enabled |-> FALSE, cronExpression |-> "c1"]
    ELSE [enabled |-> evs[i].cron \notin {NoCron, ""},
          cronExpression |-> IF evs[i].cron = NoCron THEN "c1" ELSE evs[i].cron]

\* scheduleBackup(cronExpression): sets the cron of the first backup event
\* or pushes the event 'Automated Backup'; it does not call saveConfig.
ScheduleBackup(crons) ==
    \E c \in crons :
        LET i == FirstBackup(events) IN
        /\ IF i # 0
           THEN /\ events' = [events EXCEPT ![i].cron = c]
                /\ UNCHANGED nextOid
                /\ last' = [Last("schedule") EXCEPT !.oid = events[i].oid,
                                                    !.res = "true"]
           ELSE /\ Len(events) < MaxEvents
                /\ nextOid <= MaxOid
                /\ events' = Append(events,
                       [oid |-> nextOid, name |-> <<"Automated Backup", -1>>,
                        id |-> NoId, type |-> "backup", cron |-> c,
                        p0 |-> ParamsMissing])
                /\ nextOid' = nextOid + 1
                /\ last' = [Last("schedule") EXCEPT !.oid = nextOid,
                                                    !.res = "true"]
        /\ UNCHANGED <<disk, jobs, tasks, skipEvents, serverState,
                       calls, uncaught>>
        /\ UNCHANGED fsVars

\* enableBackupSchedule(enabled): gives the first backup event the default
\* cron when it has none, or splices it out of the list; it does not call
\* saveConfig.
EnableBackupSchedule ==
    \E enabled \in BOOLEAN :
        LET i == FirstBackup(events) IN
        /\ IF i = 0
           THEN /\ UNCHANGED events
                /\ last' = [Last("enable") EXCEPT
                               !.res = "false", !.on = enabled,
                               !.was = <<GetBackupSchedule(events)>>]
           ELSE /\ events' =
                     IF enabled
                     THEN [events EXCEPT ![i].cron =
                              IF @ \in {NoCron, ""} THEN "c1" ELSE @]
                     ELSE RemoveAt(events, i)
                /\ last' = [Last("enable") EXCEPT
                               !.oid = events[i].oid, !.res = "true",
                               !.on = enabled,
                               !.was = <<GetBackupSchedule(events)>>]
        /\ UNCHANGED <<disk, nextOid, jobs, tasks, skipEvents, serverState,
                       calls, uncaught>>
        /\ UNCHANGED fsVars

---------------------------------------------------------------------------
(* The backup cleanup scripts: marker-based and time-based *)

\* Retention periods of both scripts, in minutes
FREQUENT_RETENTION == 300
HOURLY_RETENTION == 720
DAILY_RETENTION == 20160

\* MAX_AGE=1440 of the file-edit branch of the marker-based script
FILE_EDIT_RETENTION == 1440

\* The markers that the marker-based script looks for, and another token.
NameTokens ==
    {"-5min-backup", "-hourly-backup", "-daily-backup", "-mission-file-edit",
     "-file-edit", "-pre-restore", "-other"}

\* [[ "$dir_name" == *"$marker"* ]]: the marker is a substring of the name.
\* -file-edit is a substring of -mission-file-edit.
Contains(name, marker) ==
    \E i \in DOMAIN name.tokens :
        \/ name.tokens[i] = marker
        \/ name.tokens[i] = "-mission-file-edit" /\ marker = "-file-edit"

\* No mpmissions_<Y>-<M>-<D>-<H>-<Min> in the name.
NoStamp == [hour |-> "", minute |-> ""]

\* now.getHours() and now.getMinutes() in the template literal of
\* createBackup: decimal digits without padding.
CurMarker(h, m) == [hour |-> ToString(h), minute |-> ToString(m)]

\* The same fields with two digits each.
Padded(h, m) ==
    [hour |-> IF h < 10 THEN "0" \o ToString(h) ELSE ToString(h),
     minute |-> IF m < 10 THEN "0" \o ToString(m) ELSE ToString(m)]

\* $(( (CURRENT_TIME - CREATED) / 60 )): the division of bash truncates
\* toward zero.
AgeMinutes(clock, created) ==
    IF clock >= created THEN (clock - created) \div 60
    ELSE -((created - clock) \div 60)

\* A retention test that also deletes at the maximum age.
ShouldDeleteAtMax(age, maxAge) == age >= maxAge

\* [ $AGE_MINUTES -gt $MAX_AGE ]
ShouldDelete(age, maxAge) == age > maxAge

Category(type, maxAge) == [type |-> type, maxAge |-> maxAge]

\* A chain that tests the daily marker before the hourly one.
MarkerClassifyDailyFirst(name) ==
    IF Contains(name, "-5min-backup")
    THEN Category("frequent", FREQUENT_RETENTION)
    ELSE IF Contains(name, "-daily-backup")
    THEN Category("daily", DAILY_RETENTION)
    ELSE IF Contains(name, "-hourly-backup")
    THEN Category("hourly", HOURLY_RETENTION)
    ELSE IF \/ Contains(name, "-mission-file-edit")
            \/ Contains(name, "-file-edit")
            \/ Contains(name, "-pre-restore")
    THEN Category("file-edit", FILE_EDIT_RETENTION)
    ELSE Category("unknown", DAILY_RETENTION)

\* A chain whose last branch gives the shortest retention.
MarkerClassifyDefaultFrequent(name) ==
    IF Contains(name, "-5min-backup")
    THEN Category("frequent", FREQUENT_RETENTION)
    ELSE IF Contains(name, "-hourly-backup")
    THEN Category("hourly", HOURLY_RETENTION)
    ELSE IF Contains(name, "-daily-backup")
    THEN Category("daily", DAILY_RETENTION)
    ELSE IF \/ Contains(name, "-mission-file-edit")
            \/ Contains(name, "-file-edit")
            \/ Contains(name, "-pre-restore")
    THEN Category("file-edit", FILE_EDIT_RETENTION)
    ELSE Category("unknown", FREQUENT_RETENTION)

\* The if/elif chain of the marker-based script.
MarkerClassify(name) ==
    IF Contains(name, "-5min-backup")
    THEN Category("frequent", FREQUENT_RETENTION)
    ELSE IF Contains(name, "-hourly-backup")
    THEN Category("hourly", HOURLY_RETENTION)
    ELSE IF Contains(name, "-daily-backup")
    THEN Category("daily", DAILY_RETENTION)
    ELSE IF \/ Contains(name, "-mission-file-edit")
            \/ Contains(name, "-file-edit")
            \/ Contains(name, "-pre-restore")
    THEN Category("file-edit", FILE_EDIT_RETENTION)
    ELSE Category("unknown", DAILY_RETENTION)

\* The time-based script: the regular expression takes hour and minute out
\* of the name, [[ $MINUTE == 00 && $HOUR == 00 ]] compares them as strings.
TimeClassify(name) ==
    IF name.stamp = NoStamp THEN Category("skipped", 0)
    ELSE IF name.stamp.minute = "00" /\ name.stamp.hour = "00"
    THEN Category("daily", DAILY_RETENTION)
    ELSE IF name.stamp.minute = "00"
    THEN Category("hourly", HOURLY_RETENTION)
    ELSE Category("frequent", FREQUENT_RETENTION)

\* The body of the loop of a script for one entry of BACKUP_DIR/mpmissions_*:
\* [ -d ], the age, the category and the removal.
ScriptRun(which, cat) ==
    [sh EXCEPT
        !.ran = which,
        !.type = IF sh.isDir THEN cat.type ELSE "no directory",
        !.maxAge = cat.maxAge,
        !.age = AgeMinutes(sh.clock, sh.created),
        !.deleted = /\ sh.isDir
                    /\ cat.type # "skipped"
                    /\ ShouldDelete(AgeMinutes(sh.clock, sh.created), cat.maxAge)]

RunMarkerScript ==
    /\ sh.ran = "none"
    /\ sh' = ScriptRun("marker", MarkerClassify(sh.name))
    /\ last' = Last("marker script")
    /\ UNCHANGED schedVars
    /\ UNCHANGED <<calls, uncaught, live, rootExists, root, cwdDirs, now>>

RunTimeScript ==
    /\ sh.ran = "none"
    /\ sh' = ScriptRun("time", TimeClassify(sh.name))
    /\ last' = Last("time script")
    /\ UNCHANGED schedVars
    /\ UNCHANGED <<calls, uncaught, live, rootExists, root, cwdDirs, now>>

---------------------------------------------------------------------------
(* The scheduler and the dispatcher: every task type and cron expression *)

InitWith(templates, skips) ==
    /\ events \in EventLists(templates)
    /\ disk = events
    /\ nextOid = Len(events) + 1
    /\ jobs = <<>>
    /\ tasks = <<>>
    /\ skipEvents \in skips
    /\ serverState = "STOPPED"
    /\ calls = <<>>
    /\ uncaught = FALSE
    /\ live = "v1"
    /\ rootExists = FALSE
    /\ root = [n \in RootNames |-> NoEntry]
    /\ cwdDirs = {}
    /\ now = 0
    /\ sh = NoRun
    /\ last = Last("init")

Init == InitWith(Templates, BOOLEAN)

Next ==
    \/ Start
    \/ Stop
    \/ \E j \in DOMAIN jobs : Fire(j)
    \/ \E i \in DOMAIN calls : Settle(i)
    \/ \E s \in ServerStates : SetServerState(s)
    \/ BackupStep

Spec == Init /\ [][Next]_vars

---------------------------------------------------------------------------
(* The scheduler under changes of the schedule registry *)

InitSchedules ==
    InitWith({t \in BackupTemplates : t.cron \in {NoCron, "bad", "c1"}}, {FALSE})

NextSchedules ==
    \/ Start
    \/ Stop
    \/ \E j \in DOMAIN jobs : Fire(j)
    \/ AddBackupSchedule({NoDesc}, {TRUE})
    \/ UpdateBackupSchedule({NoDesc}, {TRUE})
    \/ DeleteBackupSchedule({TRUE})
    \/ BackupStep

SpecSchedules == InitSchedules /\ [][NextSchedules]_vars

---------------------------------------------------------------------------
(* The schedule registry and the configuration file *)

RegistryTemplates ==
    {t \in Templates : /\ t.type \in {"backup", "restart"}
                       /\ t.cron \in {NoCron, "c1"}}

InitRegistry == InitWith(RegistryTemplates, {FALSE})

NextRegistry ==
    \/ ScheduleBackup({"c1"})
    \/ EnableBackupSchedule
    \/ AddBackupSchedule({"B C"}, BOOLEAN)
    \/ UpdateBackupSchedule({NoDesc}, BOOLEAN)
    \/ DeleteBackupSchedule(BOOLEAN)
    \/ Tick

SpecRegistry == InitRegistry /\ [][NextRegistry]_vars

---------------------------------------------------------------------------
(* The backup manager: direct calls, the clock and the mission data *)

InitBackups ==
    /\ events = <<>>
    /\ disk = <<>>
    /\ nextOid = 1
    /\ jobs = <<>>
    /\ tasks = <<>>
    /\ skipEvents = FALSE
    /\ serverState = "STOPPED"
    /\ calls = <<>>
    /\ uncaught = FALSE
    /\ live \in {Absent, "v1"}
    /\ \E old \in SUBSET {Marker(0), KeepName} :
          /\ root = [n \in RootNames |-> IF n \in old THEN Dir("v0", 0) ELSE NoEntry]
          /\ rootExists \in (IF old = {} THEN BOOLEAN ELSE {TRUE})
    /\ cwdDirs = {}
    /\ now = 0
    /\ sh = NoRun
    /\ last = Last("init")

NextBackups ==
    \/ CreateBackup
    \/ Cleanup
    \/ GetBackupsCall
    \/ ListStep
    \/ \E n \in RootNames \cup {EmptyName} : RestoreBackup(n)
    \/ BackupStep
    \/ RestoreStep
    \/ \E v \in {Absent, "v1"} : EditLive(v)
    \/ Tick

SpecBackups == InitBackups /\ [][NextBackups]_vars

---------------------------------------------------------------------------
(* The timers of start() and the set of active timers *)

InitTimers ==
    InitWith({t \in BackupTemplates : t.cron \in {NoCron, "bad", "c1"}}, {FALSE})

NextTimers ==
    \/ Start
    \/ StartReadFails
    \/ Stop
    \/ \E j \in DOMAIN jobs : Fire(j)
    \/ BackupStep

SpecTimers == InitTimers /\ [][NextTimers]_vars

---------------------------------------------------------------------------
(* Scheduled backups that overlap each other and a restore *)

InitOverlap ==
    /\ events \in {evs \in EventLists({t \in BackupTemplates : t.cron = "c1"}) :
                       Len(evs) <= 1}
    /\ disk = events
    /\ nextOid = Len(events) + 1
    /\ jobs = <<>>
    /\ tasks = <<>>
    /\ skipEvents = FALSE
    /\ serverState = "STARTED"
    /\ calls = <<>>
    /\ uncaught = FALSE
    /\ live = "v1"
    /\ rootExists = TRUE
    /\ root = [n \in RootNames |-> IF n = Marker(0) THEN Dir("v0", 0) ELSE NoEntry]
    /\ cwdDirs = {}
    /\ now = 0
    /\ sh = NoRun
    /\ last = Last("init")

NextOverlap ==
    \/ Start
    \/ \E j \in DOMAIN jobs : FireWithin(j, MaxCalls + MaxOverlap)
    \/ RestoreBackup(Marker(0))
    \/ BackupStep
    \/ RestoreStep

SpecOverlap == InitOverlap /\ [][NextOverlap]_vars

---------------------------------------------------------------------------
(* The cleanup scripts over one entry of BACKUP_DIR *)

\* Names of up to MaxTokens tokens after the timestamp.
TokenSeqs == UNION {[1..n -> NameTokens] : n \in 0..MaxTokens}

ScriptHours == {0, 7, 10}
ScriptMinutes == {0, 5, 30}

Stamps ==
    {NoStamp}
    \cup {CurMarker(h, m) : h \in ScriptHours, m \in ScriptMinutes}
    \cup {Padded(h, m) : h \in ScriptHours, m \in ScriptMinutes}

Retentions ==
    {FREQUENT_RETENTION, HOURLY_RETENTION, DAILY_RETENTION, FILE_EDIT_RETENTION}

\* Seconds between the mtime and the run: around each maximum age, and an
\* mtime after the run.
Deltas ==
    {60 * r + d : r \in Retentions, d \in {-1, 0, 59, 60}} \cup {-61, 0}

InitScripts ==
    /\ events = <<>>
    /\ disk = <<>>
    /\ nextOid = 1
    /\ jobs = <<>>
    /\ tasks = <<>>
    /\ skipEvents = FALSE
    /\ serverState = "STOPPED"
    /\ calls = <<>>
    /\ uncaught = FALSE
    /\ live = "v1"
    /\ rootExists = TRUE
    /\ root = [n \in RootNames |-> NoEntry]
    /\ cwdDirs = {}
    /\ now = 0
    /\ \E tokens \in TokenSeqs, stamp \in Stamps, isDir \in BOOLEAN,
          created \in 0..MaxCreated, delta \in Deltas :
          sh = [ran |-> "none",
                name |-> [tokens |-> tokens, stamp |-> stamp],
                isDir |-> isDir, created |-> created + 61,
                clock |-> created + 61 + delta,
                type |-> "", maxAge |-> 0, age |-> 0, deleted |-> FALSE]
    /\ last = Last("init")

NextScripts ==
    \/ RunMarkerScript
    \/ RunTimeScript

SpecScripts == InitScripts /\ [][NextScripts]_vars


---------------------------------------------------------------------------
(* Properties of Events.start and Events.stop *)

\* C1: start() registers no timer for an event whose cron expression is
\* missing or rejected and registers a timer, in the order of the
\* configuration, for every other event with a valid expression, wherever
\* the rejected events stand in the list; the start() without the cron
\* validation registers the same timers.
C1_StartIsolatesBadEvents ==
    last.op = "start" =>
        LET added == SubSeq(jobs, last.base + 1, Len(jobs))
            valid == SelectSeq(events,
                         LAMBDA e : e.cron \notin {NoCron, ""}
                                    /\ CronParses(e.cron) /\ CronHasNext(e.cron))
            legacy == StartAllLegacy([jobs |-> <<>>, tasks |-> <<>>], events).jobs
        IN /\ Len(added) = Len(valid)
           /\ \A i \in DOMAIN added :
                 /\ added[i].oid = valid[i].oid
                 /\ added[i].st = "active"
                 /\ InTasks(tasks, last.base + i)
           /\ legacy = added

\* A start() that met a rejected event and registered a later valid one.
C1_Witness ==
    /\ last.op = "start"
    /\ Len(jobs) > last.base
    /\ \E i, k \in DOMAIN events :
         /\ i < k
         /\ events[i].cron \in {NoCron, "bad", "never"}
         /\ events[k].cron = "c1"
         /\ jobs[Len(jobs)].oid = events[k].oid

\* C2 (as stated): after stop() returns the set of active timers is empty
\* and no timer that a start() registered before it invokes the dispatcher
\* again, also when the cancel() of one of them throws.
C2_StoppedTimersNeverFire ==
    /\ last.op = "stop" => tasks = <<>>
    /\ last.op = "fire" => jobs[last.job].st = "active"

\* C2 (amended): after stop() returns the set of active timers is empty,
\* every timer of the set is either cancelled or one whose cancel() threw,
\* a cancelled timer never invokes the dispatcher again, and every timer
\* that is live and was not hit by a throwing cancel() is in the set.
C2_StopCancelsWhatCancelAccepts ==
    /\ last.op = "stop" =>
          /\ tasks = <<>>
          /\ \A j \in DOMAIN jobs : jobs[j].st \in {"cancelled", "orphan"}
    /\ \A j \in DOMAIN jobs : jobs[j].st = "active" => InTasks(tasks, j)
    /\ last.op = "fire" => jobs[last.job].st # "cancelled"

\* A stop() of two timers: the cancel() of the first threw and left it
\* live, the second is cancelled all the same.
C2_Witness ==
    /\ last.op = "stop"
    /\ \E j, k \in DOMAIN jobs :
         /\ j < k
         /\ jobs[j].st = "orphan"
         /\ jobs[k].st = "cancelled"

\* C3: after any sequence of start(), stop() and schedule add, update and
\* delete operations each configured event has at most one live timer.
C3_OneTimerPerEvent ==
    \A i \in DOMAIN events :
        Cardinality({j \in DOMAIN jobs :
                        /\ jobs[j].oid = events[i].oid
                        /\ jobs[j].st \in {"active", "orphan"}}) <= 1

\* C4: once deleteBackupSchedule(id) has returned true the timer of the
\* removed event is destroyed: the event is never dispatched afterwards.
C4_DeletedNeverDispatched ==
    (last.op = "fire" /\ last.executed) =>
        \E i \in DOMAIN events : events[i].oid = last.oid

---------------------------------------------------------------------------
(* Properties of the timer callback and of the dispatch *)

\* The task types that Events.execute runs through checkStartedAndRun.
GuardedTypes == {"restart", "message", "kickAll", "lock", "unlock"}

\* C5 (as stated): for each of the task types restart, message, kickAll,
\* lock, unlock and backup a firing while the server is not STARTED is
\* skipped: no action of the task is invoked.
C5_AllTypesGated ==
    (/\ last.op = "fire"
     /\ last.srv # "STARTED"
     /\ last.type \in GuardedTypes \cup {"backup"}) => last.acts = {}

\* C5 (amended): a firing of a restart, message, kickAll, lock or unlock
\* event while the server is not STARTED invokes no action of the task; a
\* firing of a backup event that reaches the dispatcher invokes
\* createBackup in every server state.
C5_GatedButBackup ==
    /\ (/\ last.op = "fire"
        /\ last.srv # "STARTED"
        /\ last.type \in GuardedTypes) => (last.acts = {} /\ ~last.caught)
    /\ (/\ last.op = "fire"
        /\ last.executed
        /\ last.type = "backup") => last.acts = {"createBackup"}

\* A restart event dispatched while the server is stopped.
C5_Witness ==
    /\ last.op = "fire"
    /\ last.executed
    /\ last.srv = "STOPPED"
    /\ last.type = "restart"
    /\ last.acts = {}

\* C6: while the skip-events flag is set no firing invokes the dispatcher:
\* no killServer, no RCON command, no notification and no createBackup is
\* triggered by a scheduled event.
C6_SkipEventsSuppresses ==
    skipEvents =>
        /\ last.op = "fire" => (~last.executed /\ last.acts = {})
        /\ calls = <<>>
        /\ \A n \in DOMAIN root : root[n] = NoEntry

\* A restart event fires with the flag set while the server is started.
C6_Witness ==
    /\ skipEvents
    /\ last.op = "fire"
    /\ last.srv = "STARTED"
    /\ last.type = "restart"

\* C7: an error of a dispatch - a task that throws before it returns its
\* promise, or a promise of the task that rejects - never becomes an
\* uncaught exception or an unhandled rejection, and neither the firing
\* nor the end of the task changes a timer or the set of active timers.
C7_DispatchErrorsContained ==
    /\ [](~uncaught)
    /\ [][last'.op \in {"fire", "settle", "createBackup"}
             => UNCHANGED <<jobs, tasks>>]_vars

\* The promise of killServer rejected and the timers are still live.
C7_Witness ==
    /\ last.op = "settle"
    /\ last.res = "rejected"
    /\ ~uncaught
    /\ \E j \in DOMAIN jobs : jobs[j].type = "restart" /\ jobs[j].st = "active"

---------------------------------------------------------------------------
(* Properties of Backups.createBackup and Backups.restoreBackup *)

\* The call that the last step ended.
EndedCall == last.call[1]

\* createBackup ended and the source directory was missing when it was
\* called and when it was looked for.
SourceWasMissing ==
    /\ last.op = "createBackup"
    /\ ~EndedCall.hadLive
    /\ EndedCall.checked # "present"

\* C8 (as stated): createBackup() with a missing source directory completes
\* without raising, creates no artifact directory and leaves the existing
\* artifacts as they were.
C8_MissingSourceIsNoOp ==
    SourceWasMissing => (last.res = "skipped" /\ EndedCall.made = {})

\* C8 (amended): createBackup() with a missing source directory writes no
\* artifact directory, and it completes without raising unless the mkdir
\* of the backup root, which comes before the look for the source, fails:
\* that failure is thrown to the caller.
C8_MissingSourceWritesNothing ==
    SourceWasMissing =>
        /\ EndedCall.made = {}
        /\ \/ last.res = "skipped"
           \/ last.res = "raised" /\ EndedCall.failed = "mkdir"

\* createBackup skipped a missing source while an artifact existed.
C8_Witness ==
    /\ SourceWasMissing
    /\ last.res = "skipped"
    /\ Artifacts(root) # {}

\* C9: restoreBackup(name) for a name that is no existing artifact returns
\* false, creates no safety backup and does not touch the live directory.
C9_UnknownNameRejected ==
    (last.op = "restore" /\ ~EndedCall.isArt) =>
        /\ last.res = "false"
        /\ EndedCall.made = {}
        /\ ~EndedCall.touched

\* C10 (as stated): restoreBackup(name) for an existing artifact creates
\* exactly one new safety artifact, named for the minute of the call, in
\* addition to the artifacts that existed before.
C10_OneNewSafetyArtifact ==
    (last.op = "restore" /\ EndedCall.isArt) =>
        /\ EndedCall.made = {Marker(EndedCall.t0)}
        /\ EndedCall.fresh

\* C10 (amended): restoreBackup(name) for an existing artifact calls
\* createBackup once before it touches the live directory and so writes at
\* most one safety artifact, named for a minute not before the call; it
\* writes one when createBackup returns normally after a complete copy and
\* none when the live directory is missing at the look for it; the live
\* directory is touched only after createBackup has returned.
C10_AtMostOneSafetyArtifact ==
    (last.op = "restore" /\ EndedCall.isArt) =>
        /\ Cardinality(EndedCall.made) <= 1
        /\ \A n \in EndedCall.made : n[1] = "mpmissions" /\ n[2] >= EndedCall.t0
        /\ EndedCall.safety = "created" => EndedCall.made = {EndedCall.marker}
        /\ EndedCall.checked = "missing" => EndedCall.made = {}
        /\ EndedCall.touched => EndedCall.safety \in {"created", "copy false", "skipped"}

\* A restore that returned true after one new safety artifact of the
\* minute of the call.
C10_Witness ==
    /\ last.op = "restore"
    /\ EndedCall.isArt
    /\ last.res = "true"
    /\ EndedCall.safety = "created"
    /\ EndedCall.made = {Marker(EndedCall.t0)}
    /\ EndedCall.fresh


\* C11: when restoreBackup(name) for an existing artifact returns true and
\* no step of it reported a failure, the live mission directory holds the
\* contents that the artifact had when restoreBackup was called.
C11_RestoredContentsAsAtCall ==
    (/\ last.op = "restore"
     /\ EndedCall.isArt
     /\ last.res = "true"
     /\ EndedCall.failed = "") => live = EndedCall.from

C13_FailedRestoreLeavesLive ==
    (last.op = "restore" /\ last.res = "false") => ~EndedCall.touched


---------------------------------------------------------------------------
(* Properties of Backups.cleanup *)

\* C14: after a cleanup() in which nothing failed has completed, every
\* artifact that it found older than backupMaxAge is gone from the backup
\* root, and no artifact of the backup root is older than backupMaxAge at
\* the time the cleanup read the clock.
C14_CleanupDeletesExpired ==
    (/\ last.op = "cleanup"
     /\ last.res = "done"
     /\ EndedCall.failed = "") =>
        /\ EndedCall.expired \cap Artifacts(root) = {}
        /\ Expired(root, EndedCall.t0) = {}

\* C15: a cleanup() that begins right after a cleanup() has completed, with
\* no artifact created and no time passed in between, finds no expired
\* artifact left to delete.
C15_SecondCleanupDeletesNothing ==
    (/\ last.op = "cleanup"
     /\ last.res = "done"
     /\ EndedCall.after
     /\ EndedCall.failed = "") => EndedCall.expired = {}

\* C17: createBackup() returns after a successful copy while the cleanup it
\* started is still at its first await, and no failure of a cleanup - of
\* the listing, of a stat or of a removal - becomes an exception of
\* createBackup or an unhandled rejection.
C17_CleanupNeverFailsBackup ==
    /\ ~uncaught
    /\ (last.op = "createBackup" /\ last.res = "created") =>
          \E i \in DOMAIN calls :
              /\ calls[i].kind = "cleanup"
              /\ calls[i].pc = "readdir"
              /\ ~calls[i].handled
    /\ (last.op = "cleanup" /\ ~EndedCall.handled) =>
          last.res \in {"done", "failed"}

\* The removal of an expired artifact threw in a cleanup that createBackup
\* had started.
C17_Witness ==
    /\ last.op = "cleanup"
    /\ last.res = "failed"
    /\ ~EndedCall.handled
    /\ EndedCall.failed = "remove"
    /\ EndedCall.expired # {}


---------------------------------------------------------------------------
(* Properties of the backup cleanup scripts *)

\* Seconds between the mtime of the entry and the run of the script.
ScriptDelta == sh.clock - sh.created

\* C16: both scripts decide on the age in whole minutes with a strict
\* greater-than: a directory that is classified is kept while its age is
\* at most its maximum age - up to 59 seconds past it - and is deleted
\* from one whole minute more, for each of the maximum ages.
C16_StrictAgeBoundary ==
    (sh.ran # "none" /\ sh.isDir /\ sh.type # "skipped") =>
        /\ sh.maxAge \in Retentions
        /\ ScriptDelta < 60 * (sh.maxAge + 1) => ~sh.deleted
        /\ ScriptDelta >= 60 * (sh.maxAge + 1) => sh.deleted

\* A directory 59 seconds past its maximum age is kept.
C16_Witness ==
    /\ sh.ran # "none"
    /\ sh.isDir
    /\ sh.type = "hourly"
    /\ ScriptDelta = 60 * HOURLY_RETENTION + 59
    /\ ~sh.deleted

\* C18 (as stated): for every name that contains -hourly-backup the
\* marker-based script yields the category hourly, whatever else the name
\* contains, and deletes the directory iff its age is more than 720 minutes.
C18_HourlyMarkerAlways ==
    (sh.ran = "marker" /\ sh.isDir /\ Contains(sh.name, "-hourly-backup")) =>
        /\ sh.type = "hourly"
        /\ sh.deleted <=> (ScriptDelta >= 60 * 721)

\* C18 (amended): for every name that contains -hourly-backup and does not
\* contain -5min-backup the marker-based script yields hourly, whatever the
\* age and the other markers of the name, and deletes the directory iff its
\* age is more than 720 minutes; a name that also contains -5min-backup is
\* frequent and is deleted iff its age is more than 300 minutes.
C18_HourlyMarkerAfterFrequent ==
    (sh.ran = "marker" /\ sh.isDir /\ Contains(sh.name, "-hourly-backup")) =>
        IF Contains(sh.name, "-5min-backup")
        THEN /\ sh.type = "frequent"
             /\ sh.deleted <=> (ScriptDelta >= 60 * 301)
        ELSE /\ sh.type = "hourly"
             /\ sh.deleted <=> (ScriptDelta >= 60 * 721)

\* A name with the hourly and the daily marker, 721 minutes old, deleted.
C18_Witness ==
    /\ sh.ran = "marker"
    /\ sh.isDir
    /\ Contains(sh.name, "-hourly-backup")
    /\ Contains(sh.name, "-daily-backup")
    /\ sh.type = "hourly"
    /\ ScriptDelta = 60 * 721
    /\ sh.deleted

\* C19: for a directory named as createBackup names it the time-based
\* script yields daily (20160) when hour and minute are zero, hourly (720)
\* when only the minute is zero and frequent (300) otherwise.
C19_TimestampClasses ==
    (sh.ran = "time" /\ sh.isDir /\ sh.name.tokens = <<>>) =>
        \A h \in ScriptHours, m \in ScriptMinutes :
            sh.name.stamp = CurMarker(h, m) =>
                /\ sh.type = IF m = 0 /\ h = 0 THEN "daily"
                             ELSE IF m = 0 THEN "hourly" ELSE "frequent"
                /\ sh.maxAge = IF m = 0 /\ h = 0 THEN DAILY_RETENTION
                               ELSE IF m = 0 THEN HOURLY_RETENTION
                               ELSE FREQUENT_RETENTION


---------------------------------------------------------------------------
(* Properties of the schedule registry *)

\* C20: after scheduleBackup, enableBackupSchedule, addBackupSchedule,
\* updateBackupSchedule or deleteBackupSchedule has reported success, the
\* event list of the configuration file equals the event list in memory.
C20_MutationsPersisted ==
    (/\ last.op \in {"schedule", "enable", "add", "update", "delete"}
     /\ last.res \in {"true", "added"}) => disk = events


---------------------------------------------------------------------------
(* Properties of Backups.getBackups *)

\* C21: getBackups returns a descriptor, with the modification time, for
\* exactly those entries of the backup root that are directories with a
\* name that starts with mpmissions_, and no step of it changes anything
\* on the file system.
C21_ListIsExactAndReadOnly ==
    /\ [](last.op = "list" /\ last.res = "listed" =>
            /\ \A d \in EndedCall.result :
                  /\ d[1][1] = "mpmissions"
                  /\ root[d[1]].kind = "dir"
                  /\ d[2] = root[d[1]].mtime
            /\ \A n \in EndedCall.listed :
                  (n[1] = "mpmissions" /\ root[n].kind = "dir")
                      => <<n, root[n].mtime>> \in EndedCall.result)
    /\ [][last'.op \in {"call getBackups", "list"}
             => UNCHANGED <<live, rootExists, root, cwdDirs>>]_vars

\* A listing of a backup root that holds an artifact and another directory.
C21_Witness ==
    /\ last.op = "list"
    /\ last.res = "listed"
    /\ EndedCall.listed = {Marker(0), KeepName}
    /\ EndedCall.result = {<<Marker(0), 0>>}


---------------------------------------------------------------------------
(* Properties of the dispatch of restart and message events *)

\* C22: when a restart event fires while the server is STARTED, the task
\* emits the planned-restart notification and then asks for killServer, in
\* this order, and the dispatcher has returned while killServer is still
\* pending.
C22_NotifyThenKillUnawaited ==
    (last.op = "fire" /\ last.executed /\ last.type = "restart"
        /\ last.srv = "STARTED")
    => /\ last.trace = <<"notify", "killServer">>
       /\ Len(calls) > 0
       /\ calls[Len(calls)].kind = "kill"
       /\ calls[Len(calls)].pc = "pending"

\* A restart event has fired while the server was STARTED.
C22_Witness ==
    /\ last.op = "fire"
    /\ last.executed
    /\ last.type = "restart"
    /\ last.srv = "STARTED"
    /\ last.trace = <<"notify", "killServer">>
    /\ calls[Len(calls)].kind = "kill"

\* C23: when a message event without a first parameter (params missing, or
\* an empty first entry) fires while the server is STARTED, the error is
\* logged and the RCON broadcast is invoked all the same.
C23_MissingMessageStillBroadcast ==
    (last.op = "fire" /\ last.executed /\ last.type = "message"
        /\ last.srv = "STARTED"
        /\ jobs[last.job].p0 \in {ParamsMissing, ""})
    => /\ "missing message" \in last.logs
       /\ "global" \in last.acts

---------------------------------------------------------------------------
(* Properties of Events.stop and of the tasks in flight *)

\* C29: stop() leaves the tasks that earlier firings started untouched: the
\* calls in flight are the same after stop() as before it, so a createBackup
\* that a firing started goes on to its end after the timers are cancelled.
C29_StopLeavesTasksRunning ==
    [][last'.op = "stop" => calls' = calls]_vars

\* A scheduled createBackup has created its artifact after stop() had
\* cancelled the timer whose firing started it.
C29_Witness ==
    /\ last.op = "createBackup"
    /\ last.res = "created"
    /\ EndedCall.kind = "backup"
    /\ EndedCall.handled
    /\ jobs[EndedCall.job].st = "cancelled"
    /\ tasks = <<>>


---------------------------------------------------------------------------
(* Order of the safety backup and the restore *)

\* The safety backup of the restore call c had returned, and when it
\* created an artifact the artifact held all that the copy had read from
\* the live directory.
SafetyCameFirst(c) ==
    /\ c.safety \in {"skipped", "created", "copy false"}
    /\ c.safety = "created" => (c.saved = c.pre /\ c.saved # Absent)
    /\ c.safety = "skipped" => c.checked = "missing"

---------------------------------------------------------------------------
(* Thresholds of the marker-based script *)

\* The maximum age, in minutes, that goes with a marker.
MarkerThreshold(tok) ==
    CASE tok = "-5min-backup" -> 300
      [] tok = "-hourly-backup" -> 720
      [] tok = "-daily-backup" -> 20160
      [] tok \in {"-mission-file-edit", "-file-edit", "-pre-restore"} -> 1440
      [] OTHER -> -1

\* The thresholds of the markers in the name of the entry.
NameThresholds ==
    {MarkerThreshold(sh.name.tokens[i]) : i \in DOMAIN sh.name.tokens} \ {-1}

\* C25: the marker-based script gives a directory the threshold of a marker
\* that its name contains (300, 720, 20160 or 1440 minutes), the one
\* threshold there is when all its markers agree; a directory whose name
\* contains no marker gets the daily threshold of 20160 minutes and is not
\* deleted while its age is at most 14 days.
C25_MarkerThresholds ==
    (sh.ran = "marker" /\ sh.isDir)
    => /\ NameThresholds # {} => sh.maxAge \in NameThresholds
       /\ NameThresholds = {}
            => /\ sh.type = "unknown"
               /\ sh.maxAge = 20160
               /\ ScriptDelta <= 14 * 24 * 60 * 60 => ~sh.deleted

\* A directory without a marker, 14 days old to the second, was kept.
C25_Witness ==
    /\ sh.ran = "marker"
    /\ sh.isDir
    /\ sh.name.tokens = <<"-other">>
    /\ ScriptDelta = 14 * 24 * 60 * 60
    /\ sh.maxAge = 20160
    /\ ~sh.deleted


---------------------------------------------------------------------------
(* The event list under the registry operations, and disabled schedules *)

\* C26: setSchedule, enableSchedule, addSchedule and updateSchedule never
\* make the configured event list shorter: only the removal by id does.
C26_OnlyDeleteShortens ==
    [][last'.op \in {"schedule", "enable", "add", "update"}
          => Len(events') >= Len(events)]_vars

\* C27: a backup event that updateSchedule has disabled (its cron is
\* absent) is not dispatched by a timer of the running scheduler.
C27_DisabledNeverDispatched ==
    (last.op = "fire" /\ last.executed /\ jobs[last.job].st = "active")
    => \A i \in DOMAIN events :
          events[i].oid = last.oid => events[i].cron # NoCron


---------------------------------------------------------------------------
(* Overlapping executions *)

\* C28: the dispatcher does not wait for the task of an earlier firing: a
\* live timer can fire whatever calls are in flight, so that a second
\* firing of a backup event starts createBackup while the createBackup of
\* the firing before it is still running.
C28_FiringNeverWaits ==
    \A j \in DOMAIN jobs :
        (jobs[j].st \in {"active", "orphan"}
            /\ Len(calls) < MaxCalls + MaxOverlap)
        => ENABLED FireWithin(j, MaxCalls + MaxOverlap)

\* Two createBackup calls of one backup event are in flight: the second
\* has just been started, the first has not ended.
C28_Witness ==
    /\ last.op = "fire"
    /\ last.type = "backup"
    /\ \E i, k \in DOMAIN calls :
          /\ i < k
          /\ calls[i].kind = "backup"
          /\ calls[k].kind = "backup"
          /\ calls[i].job = last.job
          /\ calls[k].job = last.job
          /\ calls[i].pc \in {"copy", "copying"}
          /\ calls[k].pc = "mkdir"

\* C30: no step of a scheduled createBackup waits for a restoreBackup in
\* flight, so that the backup can check or read the live directory after
\* the restore has removed it and before the restore has copied the
\* artifact back: the backup is then skipped or captures a partial tree.
C30_BackupNeverWaitsForRestore ==
    \A i \in DOMAIN calls :
        calls[i].kind = "backup"
        => /\ calls[i].pc = "mkdir" => ENABLED CbMkdir(i)
           /\ calls[i].pc = "copy" => ENABLED CbCopyRead(i)
           /\ calls[i].pc = "copying" => ENABLED CbCopyDone(i)

\* A scheduled backup has copied the live directory while a restore was
\* writing it: its artifact holds a partial tree.
C30_Witness ==
    /\ last.op = "createBackup"
    /\ last.res = "created"
    /\ EndedCall.kind = "backup"
    /\ EndedCall.pre = Partial
    /\ root[EndedCall.marker].content = Partial
    /\ \E k \in DOMAIN calls :
          /\ calls[k].kind = "restore"
          /\ calls[k].touched
          /\ calls[k].pc = "rcopying"


---------------------------------------------------------------------------
(* Artifacts of the same minute *)

\* C31 as stated: a createBackup that was called in a minute writes the
\* artifact of that minute, whatever is there already, and the artifact
\* then holds the contents that the call read from the source.
C31_NameOfTheMinuteOfTheCall ==
    (last.op = "createBackup" /\ last.res = "created")
    => /\ EndedCall.marker = Marker(EndedCall.t0)
       /\ EndedCall.made = {Marker(EndedCall.t0)}
       /\ root[Marker(EndedCall.t0)].content = EndedCall.pre

\* C31, amended: a createBackup writes one artifact, named after the
\* minute in which it read the clock, which is after its mkdir has settled
\* and can be later than the minute of the call; it overwrites an artifact
\* of that name, and when its copy has ended the artifact holds the
\* contents that the copy read from the source. Calls that read the clock
\* in the same minute write the same artifact.
C31_NameOfTheMinuteOfTheClockRead ==
    (last.op = "createBackup" /\ last.res = "created")
    => /\ EndedCall.marker = Marker(EndedCall.namedAt)
       /\ EndedCall.t0 <= EndedCall.namedAt
       /\ EndedCall.made = {EndedCall.marker}
       /\ root[EndedCall.marker].content = EndedCall.pre
       /\ root[EndedCall.marker].kind = "dir"

\* A call made in minute 0 read the clock in minute 1 and wrote the
\* artifact of minute 1, beside the artifact of minute 0.
C31_Witness ==
    /\ last.op = "createBackup"
    /\ last.res = "created"
    /\ EndedCall.t0 = 0
    /\ EndedCall.namedAt = 1
    /\ EndedCall.marker = Marker(1)
    /\ root[Marker(0)].kind = "dir"
    /\ root[Marker(1)].content = EndedCall.pre


---------------------------------------------------------------------------
(* A restore whose safety backup fails *)

\* C39: when the createBackup inside restoreBackup raises, restoreBackup
\* returns false at once: it has neither removed nor written the live
\* mission directory.
C39_FailedSafetyBackupAbortsRestore ==
    /\ \A i \in DOMAIN calls :
          calls[i].kind = "restore" => calls[i].safety # "raised"
    /\ (last.op = "restore" /\ EndedCall.safety = "raised")
       => /\ last.res = "false"
          /\ ~EndedCall.touched
          /\ EndedCall.failed \in {"mkdir", "copy"}

\* The mkdir of the safety backup threw: the restore returned false and the
\* live directory is as it was.
C39_Witness ==
    /\ last.op = "restore"
    /\ last.res = "false"
    /\ EndedCall.safety = "raised"
    /\ EndedCall.failed = "mkdir"
    /\ EndedCall.hadLive
    /\ ~EndedCall.touched
    /\ live = "v1"


---------------------------------------------------------------------------
(* Properties of the schedule registry *)

RegistryOps == {"schedule", "enable", "add", "update", "delete"}

\* C32: deleteSchedule(id) and updateSchedule({id, ...}) with an id that
\* listSchedules reports act on the event that the id was derived from:
\* every backup event listed under the id is the event removed or modified.
C32_ListedIdIdentifiesItsEvent ==
    [][(last'.op \in {"update", "delete"} /\ last'.res = "true")
          => \A i \in DOMAIN events :
                (events[i].type = "backup" /\ ListedId(events[i]) = last'.id)
                    => events[i].oid = last'.oid]_vars

\* C33: addSchedule never gives the new schedule an id under which a
\* schedule is listed already.
C33_AddedIdIsNew ==
    [][last'.op = "add"
          => \A i \in DOMAIN events :
                events[i].type = "backup" => ListedId(events[i]) # last'.id]_vars

\* C34: after addSchedule(s) has returned r, listSchedules holds an entry
\* equal to r: same id, enabled, cronExpression and description.
C34_AddedIsListedAsReturned ==
    last.op = "add"
    => \E k \in DOMAIN GetBackupSchedules(events) :
          GetBackupSchedules(events)[k] = last.ret[1]

\* C35: updateSchedule and deleteSchedule with an id that is neither the
\* id nor the normalized name of a backup event return false and leave the
\* event list unchanged, in memory and on disk.
C35_UnknownIdChangesNothing ==
    [][(/\ last'.op \in {"update", "delete"}
        /\ \A i \in DOMAIN events :
              events[i].type = "backup"
                  => /\ events[i].id # last'.id
                     /\ Normalize(events[i].name) # last'.id)
          => (last'.res = "false" /\ UNCHANGED <<events, disk>>)]_vars

\* An update with an id of no backup event, while there is a backup event.
C35_Witness ==
    /\ last.op = "update"
    /\ last.res = "false"
    /\ last.id = <<"nope", -1>>
    /\ \E i \in DOMAIN events : events[i].type = "backup"

\* C36: after enableSchedule(false) has returned true, getSchedule reports
\* enabled = false.
C36_DisabledReportsDisabled ==
    (last.op = "enable" /\ ~last.on /\ last.res = "true")
    => ~GetBackupSchedule(events).enabled

\* C37: enableSchedule(false) followed by enableSchedule(true): both return
\* true, and getSchedule then reports what it reported before, enabled
\* with the same cron expression.
C37_ToggleIsReversible ==
    [][(/\ last.op = "enable" /\ ~last.on /\ last.res = "true"
        /\ last.was[1].enabled
        /\ last'.op = "enable" /\ last'.on)
          => /\ last'.res = "true"
             /\ GetBackupSchedule(events') = last.was[1]]_vars

\* C38: a schedule operation leaves the event list as it is, or changes
\* one backup event in its place, or removes one backup event, or appends
\* one backup event: events of other types are neither added, removed,
\* moved nor modified, and at most one backup event is touched.
C38_OnlyOneBackupEventTouched ==
    [][last'.op \in RegistryOps
          => \/ events' = events
             \/ \E i \in DOMAIN events :
                   /\ events[i].type = "backup"
                   /\ events' = RemoveAt(events, i)
             \/ \E i \in DOMAIN events :
                   /\ events[i].type = "backup"
                   /\ Len(events') = Len(events)
                   /\ events'[i].type = "backup"
                   /\ \A k \in DOMAIN events : k # i => events'[k] = events[k]
             \/ /\ Len(events') = Len(events) + 1
                /\ SubSeq(events', 1, Len(events)) = events
                /\ events'[Len(events')].type = "backup"]_vars

\* enableSchedule(false) has removed the backup event that stood behind a
\* restart event; the restart event is all that is left.
C38_Witness ==
    /\ last.op = "enable"
    /\ ~last.on
    /\ last.res = "true"
    /\ last.oid = 2
    /\ Len(events) = 1
    /\ events[1].type = "restart"
    /\ events[1].oid = 1


---------------------------------------------------------------------------
(* Registered timers and the set of active timers *)

\* C40: every timer that a start() has registered is in the set of active
\* timers when start() returns, also when the reading of its next
\* invocation failed, so that the next stop() reaches it.
C40_RegisteredTimersAreRecorded ==
    last.op = "start"
    => \A j \in (last.base + 1)..Len(jobs) :
          /\ jobs[j].st = "active"
          /\ InTasks(tasks, j)

====
